---- MODULE Spec2Model ----
(***************************************************************************)
(* Model of src/build_spectests.rs: the generator that turns WebAssembly   *)
(* spec-test scripts (.wast) into Rust test files, and the controller      *)
(* that regenerates stale outputs and the spectests/mod.rs index.          *)
(*                                                                         *)
(* Generated text is kept as the sequence of fragments pushed on the       *)
(* buffer; every fragment is a record holding the values that the format   *)
(* string interpolates.                                                    *)
(***************************************************************************)
EXTENDS Integers, Sequences, FiniteSets, TLC

\* ------------------------------------------------------------------ bounds
\* Longest command stream a script yields.
MaxCmds == 4
\* Largest source line number of a command.
MaxLine == 2
\* Largest value of the file-system clock and of modification times.
MaxTime == 1
\* Number of controller passes (runs of main) that are followed.
MaxPasses == 2

\* ------------------------------------------------------------ small helpers
NoCalls == [k \in {} |-> <<>>]

\* ------------------------------------------------------------- Type Mapper
I32(n) == [ty |-> "I32", v |-> n]
I64(n) == [ty |-> "I64", v |-> n]
F32(n) == [ty |-> "F32", v |-> n]
F64(n) == [ty |-> "F64", v |-> n]

wabt2rust_type(v) ==
    CASE v.ty = "I32" -> "i32"
      [] v.ty = "I64" -> "i64"
      [] v.ty = "F32" -> "f32"
      [] v.ty = "F64" -> "f64"

\* "{:?} as i32": the debug rendering of the number, then the cast.
wabt2rust_value(v) ==
    CASE v.ty = "I32" -> [lit |-> v.v, as |-> "i32"]
      [] v.ty = "I64" -> [lit |-> v.v, as |-> "i64"]
      [] v.ty = "F32" -> [lit |-> v.v, as |-> "f32"]
      [] v.ty = "F64" -> [lit |-> v.v, as |-> "f64"]

\* ------------------------------------------------------- text of a module
\* Characters of a module's readable text: the quote, the backslash, the
\* newline, the space and an ordinary character.
QUOTE == "QUOTE"
BSLASH == "BSLASH"
NL == "NL"
SP == "SP"

RECURSIVE replace(_, _, _)
\* str::replace for a one-character pattern.
replace(s, from, to) ==
    IF s = <<>> THEN <<>>
    ELSE (IF Head(s) = from THEN to ELSE <<Head(s)>>) \o replace(Tail(s), from, to)

\* The module binaries a script may carry, and what wasm2wat makes of each:
\* a readable text, or a failure.
ModuleBinaries == {"m1", "bad"}

wasm2wat(wasm_binary) ==
    CASE wasm_binary = "m1" -> [ok |-> TRUE, text |-> <<"(", QUOTE, "f", QUOTE, NL, ")">>]
      [] OTHER -> [ok |-> FALSE, text |-> <<>>]

\* ------------------------------------------------------- generator state
\* WastTestGenerator::new, for a script that was read and parsed.  hasher
\* is the RandomState of the module_calls HashMap: it fixes the order in
\* which that map would be iterated.
HashStates == {"up", "down"}

new(filename, hasher) ==
    [last_module |-> 0,
     last_line |-> 0,
     filename |-> filename,
     buffer |-> <<>>,
     module_calls |-> NoCalls,
     hasher |-> hasher]

\* module_calls.entry(module).or_insert(Vec::new())
entry_or_insert(module_calls, module) ==
    IF module \in DOMAIN module_calls THEN module_calls[module] ELSE <<>>

\* module_calls.remove(&module)
remove(module_calls, module) ==
    [k \in (DOMAIN module_calls) \ {module} |-> module_calls[k]]

push_str(g, fragment) == [g EXCEPT !.buffer = Append(g.buffer, fragment)]

\* The prologue of consume: the banner and the using-declarations.
consume_header(g) ==
    push_str(push_str(g, [t |-> "BANNER"]),
             [t |-> "header", filename |-> g.filename])

\* flush_module_calls as it would be were the ledger entry a hash set of
\* names, iterated in the order the map's hash state gives.
flush_module_calls_hashed(g, module) ==
    LET entry == entry_or_insert(g.module_calls, module)
        n == Len(entry)
        calls == [i \in 1..n |->
                    [call |-> IF g.hasher = "up" THEN entry[i] ELSE entry[n + 1 - i],
                     arg |-> "&result_object"]]
        g1 == IF Len(calls) > 0
              THEN push_str(g, [t |-> "test_module", module |-> module,
                                create |-> module, calls |-> calls])
              ELSE g
    IN  [g1 EXCEPT !.module_calls = remove(g.module_calls, module)]

\* flush_module_calls as it would be without the test calls.len() > 0.
flush_module_calls_always(g, module) ==
    LET entry == entry_or_insert(g.module_calls, module)
        calls == [i \in 1..Len(entry) |-> [call |-> entry[i], arg |-> "&result_object"]]
        g1 == push_str(g, [t |-> "test_module", module |-> module,
                           create |-> module, calls |-> calls])
    IN  [g1 EXCEPT !.module_calls = remove(g.module_calls, module)]

flush_module_calls(g, module) ==
    LET entry == entry_or_insert(g.module_calls, module)
        calls == [i \in 1..Len(entry) |-> [call |-> entry[i], arg |-> "&result_object"]]
        g1 == IF Len(calls) > 0
              THEN push_str(g, [t |-> "test_module", module |-> module,
                                create |-> module, calls |-> calls])
              ELSE g
    IN  [g1 EXCEPT !.module_calls = remove(g.module_calls, module)]

\* visit_module as it would be were the flush made after the factory is
\* pushed (still under the index the module replaces).
visit_module_late(g, wast_string) ==
    LET g2 == [g EXCEPT !.last_module = g.last_module + 1]
        g3 == push_str(g2, [t |-> "create_module", n |-> g2.last_module,
                            module_str |-> replace(replace(wast_string, NL, <<NL, SP, SP, SP, SP>>),
                                                   QUOTE, <<BSLASH, QUOTE>>)])
    IN  flush_module_calls(g3, g.last_module)

\* visit_module as it would be were the factory named by the index read
\* before the increment.
visit_module_zero_based(g, wast_string) ==
    LET g1 == flush_module_calls(g, g.last_module)
        g2 == [g1 EXCEPT !.last_module = g1.last_module + 1]
    IN  push_str(g2, [t |-> "create_module", n |-> g1.last_module,
                      module_str |-> replace(replace(wast_string, NL, <<NL, SP, SP, SP, SP>>),
                                             QUOTE, <<BSLASH, QUOTE>>)])

\* visit_module as it would be without the flush of the previous module.
visit_module_noflush(g, wast_string) ==
    LET g2 == [g EXCEPT !.last_module = g.last_module + 1]
    IN  push_str(g2, [t |-> "create_module", n |-> g2.last_module,
                      module_str |-> replace(replace(wast_string, NL, <<NL, SP, SP, SP, SP>>),
                                             QUOTE, <<BSLASH, QUOTE>>)])

\* visit_module once wasm2wat has returned wast_string.
visit_module(g, wast_string) ==
    LET g1 == flush_module_calls(g, g.last_module)
        g2 == [g1 EXCEPT !.last_module = g1.last_module + 1]
    IN  push_str(g2, [t |-> "create_module", n |-> g2.last_module,
                      module_str |-> replace(replace(wast_string, NL, <<NL, SP, SP, SP, SP>>),
                                             QUOTE, <<BSLASH, QUOTE>>)])

\* visit_assert_invalid as it would be were the test's name also filed
\* in the ledger of the current module.
visit_assert_invalid_called(g, wasm_binary) ==
    LET func_name == [l |-> g.last_line, suffix |-> "_assert_invalid"]
        g1 == push_str(g, [t |-> "assert_invalid", name |-> func_name,
                           wasm_binary |-> wasm_binary])
    IN  [g1 EXCEPT !.module_calls =
            (g.last_module :> Append(entry_or_insert(g.module_calls, g.last_module), func_name))
            @@ g.module_calls]

visit_assert_invalid(g, wasm_binary) ==
    push_str(g, [t |-> "assert_invalid",
                 name |-> [l |-> g.last_line, suffix |-> "_assert_invalid"],
                 wasm_binary |-> wasm_binary])

visit_assert_malformed(g, wasm_binary) ==
    push_str(g, [t |-> "assert_malformed",
                 name |-> [l |-> g.last_line, suffix |-> "_assert_malformed"],
                 wasm_binary |-> wasm_binary])

\* visit_assert_return as it would be with insert(0, func_name) for push.
visit_assert_return_front(g, action, expected) ==
    IF action.tag = "Invoke"
    THEN LET func_name == [l |-> g.last_line, suffix |-> "_assert_return_invoke"]
             g1 == push_str(g, [t |-> "wrapper", name |-> func_name, field |-> action.field,
                                args_types |-> <<"&VmCtx">>, func_return |-> <<>>,
                                args_values |-> <<[lit |-> 0, as |-> "&vm_context"]>>,
                                expected_result |-> [lit |-> 0, as |-> "()"]])
         IN  [g1 EXCEPT !.module_calls =
                 (g.last_module :> (<<func_name>> \o entry_or_insert(g.module_calls, g.last_module)))
                 @@ g.module_calls]
    ELSE g

\* visit_assert_return as it would be were the last expected value, not
\* the first, the one the wrapper returns and is compared with.
visit_assert_return_last(g, action, expected) ==
    IF action.tag = "Invoke"
    THEN LET m == Len(expected)
             func_return == IF m > 0 THEN <<wabt2rust_type(expected[m])>> ELSE <<>>
             expected_result == IF m > 0
                                THEN wabt2rust_value(expected[m]) ELSE [lit |-> 0, as |-> "()"]
             args_types == Append([i \in 1..Len(action.args) |-> wabt2rust_type(action.args[i])],
                                  "&VmCtx")
             args_values == Append([i \in 1..Len(action.args) |-> wabt2rust_value(action.args[i])],
                                   [lit |-> 0, as |-> "&vm_context"])
             func_name == [l |-> g.last_line, suffix |-> "_assert_return_invoke"]
             g1 == push_str(g, [t |-> "wrapper", name |-> func_name, field |-> action.field,
                                args_types |-> args_types, func_return |-> func_return,
                                args_values |-> args_values,
                                expected_result |-> expected_result])
         IN  [g1 EXCEPT !.module_calls =
                 (g.last_module :> Append(entry_or_insert(g.module_calls, g.last_module), func_name))
                 @@ g.module_calls]
    ELSE g

visit_assert_return(g, action, expected) ==
    IF action.tag = "Invoke"
    THEN LET func_return == IF Len(expected) > 0
                            THEN <<wabt2rust_type(expected[1])>> ELSE <<>>
             expected_result == IF Len(expected) > 0
                                THEN wabt2rust_value(expected[1]) ELSE [lit |-> 0, as |-> "()"]
             args_types == Append([i \in 1..Len(action.args) |-> wabt2rust_type(action.args[i])],
                                  "&VmCtx")
             args_values == Append([i \in 1..Len(action.args) |-> wabt2rust_value(action.args[i])],
                                   [lit |-> 0, as |-> "&vm_context"])
             func_name == [l |-> g.last_line, suffix |-> "_assert_return_invoke"]
             g1 == push_str(g, [t |-> "wrapper", name |-> func_name, field |-> action.field,
                                args_types |-> args_types, func_return |-> func_return,
                                args_values |-> args_values,
                                expected_result |-> expected_result])
         IN  [g1 EXCEPT !.module_calls =
                 (g.last_module :> Append(entry_or_insert(g.module_calls, g.last_module), func_name))
                 @@ g.module_calls]
    ELSE g

\* visit_command as it would be were assert-uninstantiable sent to
\* visit_assert_invalid.
visit_command_uninstantiable(g, kind) ==
    CASE kind.tag = "Module" -> visit_module(g, wasm2wat(kind.module).text)
      [] kind.tag = "AssertReturn" -> visit_assert_return(g, kind.action, kind.expected)
      [] kind.tag = "AssertInvalid" -> visit_assert_invalid(g, kind.module)
      [] kind.tag = "AssertMalformed" -> visit_assert_malformed(g, kind.module)
      [] kind.tag = "AssertUninstantiable" -> visit_assert_invalid(g, "bad")
      [] OTHER -> g

\* visit_command for every kind but a Module whose binary wasm2wat rejects.
visit_command(g, kind) ==
    CASE kind.tag = "Module" -> visit_module(g, wasm2wat(kind.module).text)
      [] kind.tag = "AssertReturn" -> visit_assert_return(g, kind.action, kind.expected)
      [] kind.tag = "AssertInvalid" -> visit_assert_invalid(g, kind.module)
      [] kind.tag = "AssertMalformed" -> visit_assert_malformed(g, kind.module)
      [] OTHER -> g

\* visit_command panics exactly when wasm2wat fails on a Module command.
visit_panics(kind) == kind.tag = "Module" /\ ~wasm2wat(kind.module).ok

\* One turn of the while loop of consume, for a command that next() yielded.
consume_command(g, c) ==
    LET g1 == [g EXCEPT !.last_line = c.line]
    IN  visit_command(push_str(g1, [t |-> "line", line |-> g1.last_line]), c.kind)

\* The range as it would be without the + 1.
FlushRange_short(g) == [n \in 1..(g.last_module - 1) |-> n]

\* for n in 1..self.last_module + 1
FlushRange(g) == [n \in 1..g.last_module |-> n]

RECURSIVE flush_all(_, _)
flush_all(g, ns) ==
    IF ns = <<>> THEN g ELSE flush_all(flush_module_calls(g, Head(ns)), Tail(ns))

\* The end of consume, once next() has returned None.
consume_finish(g) == flush_all(g, FlushRange(g))

\* ------------------------------------------------------------- commands
UnsupportedTags == {"AssertReturnCanonicalNan", "AssertReturnArithmeticNan", "AssertTrap",
                    "AssertUninstantiable", "AssertExhaustion", "AssertUnlinkable",
                    "Register", "PerformAction"}

Actions == {[tag |-> "Invoke", field |-> "f", args |-> <<I32(5)>>],
            [tag |-> "Get", field |-> "x", args |-> <<>>]}

ExpectedLists == {<<>>, <<I32(25)>>}

CommandKinds ==
    {[tag |-> "Module", module |-> b] : b \in ModuleBinaries}
    \cup {[tag |-> "AssertReturn", action |-> a, expected |-> e] :
            a \in Actions, e \in ExpectedLists}
    \cup {[tag |-> "AssertInvalid", module |-> b] : b \in {"bad"}}
    \cup {[tag |-> "AssertMalformed", module |-> b] : b \in {"bad"}}
    \cup {[tag |-> u] : u \in UnsupportedTags}

IsUnsupported(kind) ==
    \/ kind.tag \in UnsupportedTags
    \/ kind.tag = "AssertReturn" /\ kind.action.tag # "Invoke"

\* The commands next() can yield after a command of line last_line: the
\* parser reports lines in script order, from line 1 on.
Commands(last_line) ==
    {[line |-> l, kind |-> k] :
        l \in (IF last_line < 1 THEN 1 ELSE last_line)..MaxLine, k \in CommandKinds}

NoCommand == [line |-> 0, kind |-> [tag |-> "None"]]

\* ---------------------------------------------------------------- state
VARIABLES
    gen,          \* the WastTestGenerator of the run
    pc,           \* where consume stands: "new", "loop", "done", "panic"
    cmd,          \* the command bound by the while loop of consume
    nread,        \* how many commands next() has yielded
    all_skipped,  \* history: every command yielded so far was of an unsupported kind
    gen2          \* a second generator, run over the same commands

genvars == <<gen, pc, cmd, nread, all_skipped, gen2>>

VARIABLES
    wast,         \* the script files: whether each exists, its mtime, its source
    rust,         \* the generated files src/spectests/{name}.rs
    modrs,        \* the index file src/spectests/mod.rs
    clock,        \* the file-system clock, as it was last read to stamp a write
    cpc,          \* where main stands: "tests", "modfile", "exit" or a panic
    test_i,       \* the position of the for loop of main in TESTS
    modules,      \* the Vec modules of main
    pass,         \* which run of main this is
    writes,       \* history: the files fs::write was called on in this run
    snap,         \* history: the files and the clock as this run started
    prev          \* history: how the previous run ended

ctlvars == <<wast, rust, modrs, clock, cpc, test_i, modules, pass, writes, snap, prev>>

VARIABLES
    input         \* the arguments of the one visitor call that is followed on its own

vars == <<genvars, ctlvars, input>>

\* No visitor call is followed on its own.
NoInput == [tag |-> "None"]

ScriptName == [stem |-> "stack", ext |-> "wast"]

\* ------------------------------------------------ one run of the generator
\* The generator at rest, for the behaviours that follow the controller.
GenIdle ==
    /\ gen = new(ScriptName, "up")
    /\ pc = "idle"
    /\ cmd = NoCommand
    /\ nread = 0
    /\ all_skipped = TRUE
    /\ gen2 = new(ScriptName, "up")

\* The controller at rest, for the behaviours that follow one generator.
CtlIdle ==
    /\ wast = <<>>
    /\ rust = <<>>
    /\ modrs = [exists |-> FALSE, modified |-> 0, content |-> <<>>]
    /\ clock = 0
    /\ cpc = "idle"
    /\ test_i = 0
    /\ modules = <<>>
    /\ pass = 0
    /\ writes = {}
    /\ snap = [rust |-> <<>>, modrs |-> [exists |-> FALSE, modified |-> 0, content |-> <<>>],
               clock |-> 0]
    /\ prev = [completed |-> FALSE, start |-> 0, failed |-> 0, edited |-> FALSE]

Init ==
    /\ CtlIdle
    /\ input = NoInput
    /\ gen = new(ScriptName, "up")
    /\ pc = "new"
    /\ cmd = NoCommand
    /\ nread = 0
    /\ all_skipped = TRUE
    /\ gen2 = new(ScriptName, "up")

\* consume, up to the while loop.
ConsumeStart ==
    /\ pc = "new"
    /\ gen' = consume_header(gen)
    /\ pc' = "loop"
    /\ UNCHANGED <<cmd, nread, all_skipped, gen2, ctlvars, input>>

\* next() yields Some(command) and visit_command returns.
NextCommand ==
    /\ pc = "loop"
    /\ nread < MaxCmds
    /\ \E c \in Commands(gen.last_line) :
          /\ ~visit_panics(c.kind)
          /\ gen' = consume_command(gen, c)
          /\ cmd' = c
          /\ all_skipped' = (all_skipped /\ IsUnsupported(c.kind))
    /\ nread' = nread + 1
    /\ UNCHANGED <<pc, gen2, ctlvars, input>>

\* next() yields a Module whose binary wasm2wat rejects: expect() panics
\* after the line comment was pushed and before anything else.
NextModulePanics ==
    /\ pc = "loop"
    /\ nread < MaxCmds
    /\ \E c \in Commands(gen.last_line) :
          /\ visit_panics(c.kind)
          /\ gen' = push_str([gen EXCEPT !.last_line = c.line], [t |-> "line", line |-> c.line])
          /\ cmd' = c
          /\ all_skipped' = FALSE
    /\ nread' = nread + 1
    /\ pc' = "panic"
    /\ UNCHANGED <<gen2, ctlvars, input>>

\* next() returns Err: unwrap() panics.
NextParseError ==
    /\ pc = "loop"
    /\ pc' = "panic"
    /\ UNCHANGED <<gen, cmd, nread, all_skipped, gen2, ctlvars, input>>

\* next() returns None: the final flushes, and consume returns.
EndOfScript ==
    /\ pc = "loop"
    /\ gen' = consume_finish(gen)
    /\ pc' = "done"
    /\ UNCHANGED <<cmd, nread, all_skipped, gen2, ctlvars, input>>

Next ==
    ConsumeStart \/ NextCommand \/ NextModulePanics \/ NextParseError \/ EndOfScript

Spec == Init /\ [][Next]_vars

\* ------------------------------------ two runs over the same command stream
\* Each run builds its own HashMap, with its own RandomState; both are fed
\* the command that next() yields, whose effect is all that is kept of it.
DetInit ==
    /\ CtlIdle
    /\ input = NoInput
    /\ \E h1 \in HashStates, h2 \in HashStates :
          /\ gen = new(ScriptName, h1)
          /\ gen2 = new(ScriptName, h2)
    /\ pc = "new"
    /\ cmd = NoCommand
    /\ nread = 0
    /\ all_skipped = TRUE

DetStart ==
    /\ pc = "new"
    /\ gen' = consume_header(gen)
    /\ gen2' = consume_header(gen2)
    /\ pc' = "loop"
    /\ UNCHANGED <<cmd, nread, all_skipped, ctlvars, input>>

DetCommand ==
    /\ pc = "loop"
    /\ nread < MaxCmds
    /\ \E c \in Commands(gen.last_line) :
          /\ ~visit_panics(c.kind)
          /\ gen' = consume_command(gen, c)
          /\ gen2' = consume_command(gen2, c)
    /\ nread' = nread + 1
    /\ UNCHANGED <<pc, cmd, all_skipped, ctlvars, input>>

DetModulePanics ==
    /\ pc = "loop"
    /\ nread < MaxCmds
    /\ \E c \in Commands(gen.last_line) :
          /\ visit_panics(c.kind)
          /\ gen' = push_str([gen EXCEPT !.last_line = c.line], [t |-> "line", line |-> c.line])
          /\ gen2' = push_str([gen2 EXCEPT !.last_line = c.line], [t |-> "line", line |-> c.line])
    /\ nread' = nread + 1
    /\ pc' = "panic"
    /\ UNCHANGED <<cmd, all_skipped, ctlvars, input>>

DetParseError ==
    /\ pc = "loop"
    /\ pc' = "panic"
    /\ UNCHANGED <<gen, gen2, cmd, nread, all_skipped, ctlvars, input>>

DetEnd ==
    /\ pc = "loop"
    /\ gen' = consume_finish(gen)
    /\ gen2' = consume_finish(gen2)
    /\ pc' = "done"
    /\ UNCHANGED <<cmd, nread, all_skipped, ctlvars, input>>

DetNext ==
    DetStart \/ DetCommand \/ DetModulePanics \/ DetParseError \/ DetEnd

SpecDet == DetInit /\ [][DetNext]_vars

\* ------------------------------------------------- one visitor call alone
\* Longest module text handed to visit_module.
MaxText == 3
\* Longest list of arguments, and of expected values, of an assert_return.
MaxVals == 2

\* All sequences over S of length at most n.
SeqsUpTo(S, n) == UNION {[1..k -> S] : k \in 0..n}

\* The characters wasm2wat may put in a text; "a" stands for every
\* character that is none of the other four.
TextChars == {QUOTE, BSLASH, NL, SP, "a"}

Texts == SeqsUpTo(TextChars, MaxText)

Values == {I32(5), I32(25), I64(25), F32(1), F64(2)}

ValueLists == SeqsUpTo(Values, MaxVals)

\* What one visitor is called with: the text wasm2wat returned, or the
\* action and the expected values of an assert_return.
Inputs ==
    {[tag |-> "Module", wast_string |-> t] : t \in Texts}
    \cup {[tag |-> "AssertReturn",
           action |-> [tag |-> "Invoke", field |-> "f", args |-> a],
           expected |-> e] : a \in ValueLists, e \in ValueLists}

\* The generator as the while loop of consume hands it to visit_command
\* for the first command of a script: header and line comment pushed.
AtFirstCommand ==
    LET g == [consume_header(new(ScriptName, "up")) EXCEPT !.last_line = 1]
    IN  push_str(g, [t |-> "line", line |-> g.last_line])

EmitInit ==
    /\ CtlIdle
    /\ input \in Inputs
    /\ gen = AtFirstCommand
    /\ pc = "visit"
    /\ cmd = NoCommand
    /\ nread = 0
    /\ all_skipped = TRUE
    /\ gen2 = new(ScriptName, "up")

\* visit_module, from the flush on, for the text in input.
VisitModule ==
    /\ pc = "visit"
    /\ input.tag = "Module"
    /\ gen' = visit_module(gen, input.wast_string)
    /\ pc' = "visited"
    /\ UNCHANGED <<cmd, nread, all_skipped, gen2, ctlvars, input>>

\* visit_assert_return for the action and expected values in input.
VisitAssertReturn ==
    /\ pc = "visit"
    /\ input.tag = "AssertReturn"
    /\ gen' = visit_assert_return(gen, input.action, input.expected)
    /\ pc' = "visited"
    /\ UNCHANGED <<cmd, nread, all_skipped, gen2, ctlvars, input>>

EmitNext == VisitModule \/ VisitAssertReturn

SpecEmit == EmitInit /\ [][EmitNext]_vars

\* ------------------------------------------------------------ controller
\* The head of the TESTS table; a path is kept as its directory, stem and
\* extension.
TESTS ==
    <<[dir |-> "spectests", stem |-> "br_if", ext |-> "wast"],
      [dir |-> "spectests", stem |-> "br_table", ext |-> "wast"]>>

\* path.file_name() and path.file_stem()
file_name(path) == [stem |-> path.stem, ext |-> path.ext]
file_stem(path) == path.stem

rust_test_filepath(script_name) == [dir |-> "src/spectests", stem |-> script_name, ext |-> "rs"]
rust_test_modpath == [dir |-> "src/spectests", stem |-> "mod", ext |-> "rs"]

\* What a script file may hold: a source the parser rejects, or a command
\* stream that ends with None or breaks off with an Err of next().
ScriptIds == {"ok", "unparsable", "cmd_error", "wat_error"}

AR(l) == [line |-> l,
          kind |-> [tag |-> "AssertReturn",
                    action |-> [tag |-> "Invoke", field |-> "f", args |-> <<I32(5)>>],
                    expected |-> <<I32(25)>>]]

ScriptSource(id) ==
    CASE id = "ok" ->
           [parses |-> TRUE, ends |-> "None",
            cmds |-> <<[line |-> 1, kind |-> [tag |-> "Module", module |-> "m1"]], AR(2)>>]
      [] id = "cmd_error" ->
           [parses |-> TRUE, ends |-> "Err",
            cmds |-> <<[line |-> 1, kind |-> [tag |-> "Module", module |-> "m1"]]>>]
      [] id = "wat_error" ->
           [parses |-> TRUE, ends |-> "None",
            cmds |-> <<[line |-> 1, kind |-> [tag |-> "Register"]],
                       [line |-> 2, kind |-> [tag |-> "Module", module |-> "bad"]]>>]
      [] OTHER -> [parses |-> FALSE, ends |-> "None", cmds |-> <<>>]

RECURSIVE consume_loop(_, _, _)
\* The while loop of consume and what follows it, over a whole stream.
consume_loop(g, cmds, ends) ==
    IF cmds = <<>>
    THEN IF ends = "Err" THEN [ok |-> FALSE, g |-> g]
                         ELSE [ok |-> TRUE, g |-> consume_finish(g)]
    ELSE IF visit_panics(Head(cmds).kind)
         THEN [ok |-> FALSE, g |-> g]
         ELSE consume_loop(consume_command(g, Head(cmds)), Tail(cmds), ends)

\* generate as it would be were the failures of the parser and of wasm2wat
\* swallowed and the buffer written as far as it got.
generate_lenient(path, source, hasher) ==
    [ok |-> TRUE,
     generated_script |->
         consume_loop(consume_header(new(file_name(path), hasher)),
                      source.cmds, source.ends).g.buffer]

\* new, consume and finalize of wast_to_rust: the generated script, or a
\* panic.
generate(path, source, hasher) ==
    IF ~source.parses
    THEN [ok |-> FALSE, generated_script |-> <<>>]
    ELSE LET r == consume_loop(consume_header(new(file_name(path), hasher)),
                               source.cmds, source.ends)
         IN  [ok |-> r.ok, generated_script |-> r.g.buffer]

\* should_modify as it would be with Err(_) => false.
should_modify_absent(rust_file, wast_modified) ==
    IF rust_file.exists THEN rust_file.modified < wast_modified ELSE FALSE

\* should_modify of wast_to_rust as it would be with <= for <.
should_modify_le(rust_file, wast_modified) ==
    IF rust_file.exists THEN rust_file.modified <= wast_modified ELSE TRUE

should_modify(rust_file, wast_modified) ==
    IF rust_file.exists THEN rust_file.modified < wast_modified ELSE TRUE

RECURSIVE join_with(_, _)
\* Vec<String>::join(sep)
join_with(ss, sep) ==
    IF ss = <<>> THEN <<>>
    ELSE IF Len(ss) = 1 THEN <<ss[1]>>
    ELSE <<ss[1], sep>> \o join_with(Tail(ss), sep)

\* The content main computes for mod.rs.
modfile(mods) ==
    LET modfile_uses == <<[t |-> "BANNER"], [t |-> "mod _common;"]>>
                        \o [i \in 1..Len(mods) |-> [t |-> "mod", name |-> mods[i]]]
                        \o <<[t |-> ""]>>
    IN  join_with(modfile_uses, [t |-> "\n"])

\* The test of main as it would be were mod.rs always rewritten.
modfile_differs_always(source, computed) == TRUE

\* source != modfile.as_bytes()
modfile_differs(source, computed) == source # computed

Tests == 1..Len(TESTS)

NoFile == [exists |-> FALSE, modified |-> 0, content |-> <<>>]

\* A generated file left by an earlier build.
OldContent == <<[t |-> "BANNER"], [t |-> "header", filename |-> [stem |-> "old", ext |-> "wast"]]>>

WastFiles ==
    {[exists |-> TRUE, modified |-> m, source |-> id] : m \in 0..MaxTime, id \in ScriptIds}
    \cup {[exists |-> FALSE, modified |-> 0, source |-> "unparsable"]}

RustFiles ==
    {NoFile} \cup {[exists |-> TRUE, modified |-> m, content |-> OldContent] : m \in 0..MaxTime}

ModFiles ==
    {NoFile,
     [exists |-> TRUE, modified |-> 0, content |-> modfile(<<"br_if">>)],
     [exists |-> TRUE, modified |-> 0,
      content |-> modfile([i \in Tests |-> file_stem(TESTS[i])])]}

CtlInit ==
    /\ GenIdle
    /\ input = NoInput
    /\ wast \in [Tests -> WastFiles]
    /\ rust \in [Tests -> RustFiles]
    /\ modrs \in ModFiles
    /\ clock \in 0..MaxTime
    /\ cpc = "tests"
    /\ test_i = 1
    /\ modules = <<>>
    /\ pass = 1
    /\ writes = {}
    /\ snap = [rust |-> rust, modrs |-> modrs, clock |-> clock]
    /\ prev = [completed |-> FALSE, start |-> 0, failed |-> 0, edited |-> FALSE]

\* The clock never runs backwards: the times at which it can be read next.
Later == clock..MaxTime

\* The for loop as it would be were it left after the first test.
LoopOn_early ==
    /\ test_i' = test_i + 1
    /\ cpc' = "modfile"

\* The for loop of main moves to the next test, or leaves the loop.
LoopOn ==
    /\ test_i' = test_i + 1
    /\ cpc' = IF test_i = Len(TESTS) THEN "modfile" ELSE "tests"

\* wast_to_rust finds the output no older than the script.
WastToRustFresh ==
    /\ cpc = "tests"
    /\ wast[test_i].exists
    /\ file_stem(TESTS[test_i]) # "_common"
    /\ ~should_modify(rust[test_i], wast[test_i].modified)
    /\ modules' = Append(modules, file_stem(TESTS[test_i]))
    /\ LoopOn
    /\ UNCHANGED <<wast, rust, modrs, clock, pass, writes, snap, prev, genvars, input>>

\* wast_to_rust finds the output stale or absent, generates and writes it.
WastToRustWrite ==
    /\ cpc = "tests"
    /\ wast[test_i].exists
    /\ file_stem(TESTS[test_i]) # "_common"
    /\ should_modify(rust[test_i], wast[test_i].modified)
    /\ \E h \in HashStates, now \in Later :
          LET r == generate(TESTS[test_i], ScriptSource(wast[test_i].source), h)
          IN  /\ r.ok
              /\ clock' = now
              /\ rust' = [rust EXCEPT ![test_i] =
                             [exists |-> TRUE, modified |-> now,
                              content |-> r.generated_script]]
    /\ writes' = writes \cup {rust_test_filepath(file_stem(TESTS[test_i]))}
    /\ modules' = Append(modules, file_stem(TESTS[test_i]))
    /\ LoopOn
    /\ UNCHANGED <<wast, modrs, pass, snap, prev, genvars, input>>

\* The script's metadata cannot be read (or the name is reserved).
WastToRustMetadataPanics ==
    /\ cpc = "tests"
    /\ ~wast[test_i].exists \/ file_stem(TESTS[test_i]) = "_common"
    /\ cpc' = "panic_metadata"
    /\ UNCHANGED <<wast, rust, modrs, clock, test_i, modules, pass, writes, snap, prev, genvars, input>>

\* The output is stale and new or consume panics.
WastToRustGeneratePanics ==
    /\ cpc = "tests"
    /\ wast[test_i].exists
    /\ file_stem(TESTS[test_i]) # "_common"
    /\ should_modify(rust[test_i], wast[test_i].modified)
    /\ \E h \in HashStates :
          ~generate(TESTS[test_i], ScriptSource(wast[test_i].source), h).ok
    /\ cpc' = "panic_generate"
    /\ UNCHANGED <<wast, rust, modrs, clock, test_i, modules, pass, writes, snap, prev, genvars, input>>

\* The end of main: mod.rs differs from the computed content and is written.
ModfileWrite ==
    /\ cpc = "modfile"
    /\ modrs.exists
    /\ modfile_differs(modrs.content, modfile(modules))
    /\ \E now \in Later :
          /\ clock' = now
          /\ modrs' = [exists |-> TRUE, modified |-> now, content |-> modfile(modules)]
    /\ writes' = writes \cup {rust_test_modpath}
    /\ cpc' = "exit"
    /\ UNCHANGED <<wast, rust, test_i, modules, pass, snap, prev, genvars, input>>

\* The end of main: mod.rs holds the computed content already.
ModfileKeep ==
    /\ cpc = "modfile"
    /\ modrs.exists
    /\ ~modfile_differs(modrs.content, modfile(modules))
    /\ cpc' = "exit"
    /\ UNCHANGED <<wast, rust, modrs, clock, test_i, modules, pass, writes, snap, prev, genvars, input>>

\* The end of main: mod.rs cannot be read.
ModfileReadPanics ==
    /\ cpc = "modfile"
    /\ ~modrs.exists
    /\ cpc' = "panic_read"
    /\ UNCHANGED <<wast, rust, modrs, clock, test_i, modules, pass, writes, snap, prev, genvars, input>>

Ended == cpc \in {"exit", "panic_metadata", "panic_generate", "panic_read"}

\* main starts again at time now; edited are the scripts that were saved,
\* at that time, since the previous run ended.
StartRun(edited, now) ==
    /\ pass' = pass + 1
    /\ clock' = now
    /\ wast' = [i \in Tests |->
                  IF i \in edited THEN [wast[i] EXCEPT !.modified = now] ELSE wast[i]]
    /\ cpc' = "tests"
    /\ test_i' = 1
    /\ modules' = <<>>
    /\ writes' = {}
    /\ snap' = [rust |-> rust, modrs |-> modrs, clock |-> now]
    /\ prev' = [completed |-> (cpc = "exit"), start |-> snap.clock,
                failed |-> IF cpc = "panic_generate" THEN test_i ELSE 0,
                edited |-> (edited # {})]
    /\ UNCHANGED <<rust, modrs, genvars, input>>

RerunUnchanged ==
    /\ Ended
    /\ pass < MaxPasses
    /\ \E now \in Later : StartRun({}, now)

RerunAfterEdit ==
    /\ Ended
    /\ pass < MaxPasses
    /\ \E now \in Later, edited \in SUBSET {i \in Tests : wast[i].exists} :
          edited # {} /\ StartRun(edited, now)

CtlNext ==
    \/ WastToRustFresh
    \/ WastToRustWrite
    \/ WastToRustMetadataPanics
    \/ WastToRustGeneratePanics
    \/ ModfileWrite
    \/ ModfileKeep
    \/ ModfileReadPanics
    \/ RerunUnchanged
    \/ RerunAfterEdit

SpecCtl == CtlInit /\ [][CtlNext]_vars

\* ----------------------------------------------- reading a generated buffer
\* The fragments of a buffer that define a function under a name of their own.
NamedFunctions(b) ==
    {i \in 1..Len(b) : b[i].t \in {"wrapper", "assert_invalid", "assert_malformed"}}

Factories(b) == {i \in 1..Len(b) : b[i].t = "create_module"}

\* The aggregating functions test_module_k of a buffer.
TestModules(b, k) == {i \in 1..Len(b) : b[i].t = "test_module" /\ b[i].module = k}

\* The module index that was current when fragment i was pushed: the number
\* of module definitions visited before it.
ModuleAt(b, i) == Cardinality({j \in 1..(i - 1) : b[j].t = "create_module"})

SetMin(S) == CHOOSE m \in S : \A n \in S : m <= n

RECURSIVE NamesAt(_, _)
\* The names of the fragments at the positions S, in buffer order.
NamesAt(b, S) ==
    IF S = {} THEN <<>>
    ELSE LET m == SetMin(S) IN <<b[m].name>> \o NamesAt(b, S \ {m})

\* The wrappers emitted by the assert-return invocations visited while k
\* was the current module index, in the order of their commands.
WrappersVisited(b, k) ==
    NamesAt(b, {i \in 1..Len(b) : b[i].t = "wrapper" /\ ModuleAt(b, i) = k})

\* The names a test_module fragment calls, in order.
Called(f) == [i \in 1..Len(f.calls) |-> f.calls[i].call]

Occurrences(s, x) == Cardinality({i \in 1..Len(s) : s[i] = x})

SameBag(s, u) ==
    /\ Len(s) = Len(u)
    /\ \A i \in 1..Len(s) : Occurrences(s, s[i]) = Occurrences(u, s[i])

\* ------------------------------------------------------------------ claims
\* C1: when consume has returned, every module index k in 1..N that was
\* current while at least one assert-return invocation was visited has
\* exactly one test_module_k in the buffer, and that function calls the
\* wrappers of those invocations, each as often as it was emitted.
C1_FlushCompleteness ==
    pc = "done" =>
        \A k \in 1..Cardinality(Factories(gen.buffer)) :
            WrappersVisited(gen.buffer, k) # <<>> =>
                /\ Cardinality(TestModules(gen.buffer, k)) = 1
                /\ \A i \in TestModules(gen.buffer, k) :
                      /\ gen.buffer[i].create = k
                      /\ SameBag(Called(gen.buffer[i]), WrappersVisited(gen.buffer, k))

\* Two modules were defined and each received assert-return invocations.
C1_Witness ==
    /\ pc = "done"
    /\ Cardinality(Factories(gen.buffer)) = 2
    /\ WrappersVisited(gen.buffer, 1) # <<>>
    /\ WrappersVisited(gen.buffer, 2) # <<>>

\* C2: when consume has returned, pending_calls (module_calls) holds no
\* entry, and every index from 0 on that received entries has exactly one
\* aggregating function in the buffer.
C2_EveryIndexFlushedOnce ==
    pc = "done" =>
        /\ DOMAIN gen.module_calls = {}
        /\ \A k \in 0..Cardinality(Factories(gen.buffer)) :
              WrappersVisited(gen.buffer, k) # <<>> =>
                  Cardinality(TestModules(gen.buffer, k)) = 1

\* C3: every aggregating function in the buffer calls its wrappers in the
\* order in which their assert-return commands were visited.
C3_CallOrder ==
    \A i \in 1..Len(gen.buffer) :
        gen.buffer[i].t = "test_module" =>
            Called(gen.buffer[i]) = WrappersVisited(gen.buffer, gen.buffer[i].module)

\* An aggregating function calls two wrappers of different lines, and a
\* command of another kind was visited between the two assert-returns.
C3_Witness ==
    \E i \in 1..Len(gen.buffer) :
        /\ gen.buffer[i].t = "test_module"
        /\ Len(gen.buffer[i].calls) = 2
        /\ gen.buffer[i].module >= 1
        /\ gen.buffer[i].calls[1].call # gen.buffer[i].calls[2].call
        /\ \E j \in 1..(i - 1) :
              /\ gen.buffer[j].t = "assert_invalid"
              /\ ModuleAt(gen.buffer, j) = gen.buffer[i].module
              /\ \E w \in 1..(j - 1) : gen.buffer[w].t = "wrapper"
                                        /\ ModuleAt(gen.buffer, w) = gen.buffer[i].module

\* C8: any two distinct commands that emit a function (an assert-return
\* wrapper, an assert-invalid or an assert-malformed test) give it distinct
\* names, the line numbers of the stream being non-decreasing.
C8_UniqueNames ==
    \A i \in NamedFunctions(gen.buffer), j \in NamedFunctions(gen.buffer) :
        i # j => gen.buffer[i].name # gen.buffer[j].name

\* C9: two runs of the generator over the same command stream return the
\* same buffer, whatever the hash states of their two maps.
C9_Deterministic ==
    pc = "done" => gen.buffer = gen2.buffer

\* The two maps iterate in different orders and an aggregating function
\* with two different calls was emitted.
C9_Witness ==
    /\ pc = "done"
    /\ gen.hasher # gen2.hasher
    /\ \E i \in 1..Len(gen.buffer) :
          /\ gen.buffer[i].t = "test_module"
          /\ Len(gen.buffer[i].calls) = 2
          /\ gen.buffer[i].calls[1].call # gen.buffer[i].calls[2].call

OnlyComments(b) ==
    /\ Len(b) >= 2
    /\ b[1].t = "BANNER"
    /\ b[2].t = "header"
    /\ \A i \in 3..Len(b) : b[i].t = "line"

\* C10: visiting a command of an unsupported kind pushes only the line
\* comment, leaves last_module and module_calls as they were and does not
\* panic; a script of only such commands finalizes to the banner, the
\* using-declarations and line comments.
C10_UnsupportedSkipped ==
    /\ [][(nread' = nread + 1 /\ IsUnsupported(cmd'.kind)) =>
            /\ pc' = "loop"
            /\ gen'.last_module = gen.last_module
            /\ gen'.module_calls = gen.module_calls
            /\ gen'.buffer = Append(gen.buffer, [t |-> "line", line |-> cmd'.line])]_vars
    /\ []((pc = "done" /\ all_skipped) => OnlyComments(gen.buffer))

\* A script of several unsupported commands, the last a register, was
\* consumed to its end.
C10_Witness ==
    /\ pc = "done"
    /\ all_skipped
    /\ nread >= 2
    /\ cmd.kind.tag = "Register"

\* ------------------------------------------------- claims on the controller
RsPath(i) == rust_test_filepath(file_stem(TESTS[i]))

\* fs::write was called on the output of script i in this run.
Written(i) == RsPath(i) \in writes

\* The output of script i is absent or older than the script.
StaleIn(files, i) == ~files[i].exists \/ files[i].modified < wast[i].modified

InRun == cpc # "idle"

\* C4, as claimed: a run of main that follows a completed run, no script
\* having changed in between, writes no file.
C4_SecondRunWritesNothing ==
    (InRun /\ pass >= 2 /\ prev.completed /\ ~prev.edited) => writes = {}

\* C4, amended: a run of main that follows a completed run, no script
\* having changed in between, writes no file, provided no script carries a
\* modification time later than the clock was when the earlier run began.
C4_SecondRunWritesNothingUnlessFuture ==
    (/\ InRun
     /\ pass >= 2
     /\ prev.completed
     /\ ~prev.edited
     /\ \A i \in Tests : wast[i].modified <= prev.start) => writes = {}

\* The second run has ended after a first run that generated both outputs
\* and rewrote the index.
C4_Witness ==
    /\ pass = 2
    /\ cpc = "exit"
    /\ prev.completed
    /\ ~prev.edited
    /\ \A i \in Tests : /\ wast[i].modified <= prev.start
                         /\ snap.rust[i].exists
                         /\ snap.rust[i].content # OldContent
    /\ snap.modrs.modified = 1

\* C5: in a run, the output of every script whose wast_to_rust call has
\* returned was written if and only if it was absent or strictly older
\* than the script when the run began, and is as it was otherwise.
C5_WrittenIffStale ==
    InRun =>
        \A i \in Tests :
            i < test_i =>
                /\ Written(i) <=> StaleIn(snap.rust, i)
                /\ ~StaleIn(snap.rust, i) => rust[i] = snap.rust[i]

\* A run ended in which an absent output was written and an output as old
\* as its script was left alone.
C5_Witness ==
    /\ cpc = "exit"
    /\ ~snap.rust[1].exists
    /\ Written(1)
    /\ snap.rust[2].exists
    /\ snap.rust[2].modified = wast[2].modified
    /\ ~Written(2)

\* Generation of a source fails partway: the parser rejects it, next()
\* returns an Err, or wasm2wat rejects the binary of a module.
Fails(source) ==
    \/ ~source.parses
    \/ source.ends = "Err"
    \/ \E k \in 1..Len(source.cmds) :
          /\ source.cmds[k].kind.tag = "Module"
          /\ ~wasm2wat(source.cmds[k].kind.module).ok

\* C6: the output of a script whose generation fails is never written or
\* changed in a run; if it was stale as the run began it is stale still,
\* and the run does not get past that script.
C6_FailureLeavesOutput ==
    InRun =>
        \A i \in Tests :
            (wast[i].exists /\ Fails(ScriptSource(wast[i].source))) =>
                /\ ~Written(i)
                /\ rust[i] = snap.rust[i]
                /\ StaleIn(snap.rust, i) => (StaleIn(rust, i) /\ test_i <= i)

\* A run failed on a script with a stale output, and the next run, the
\* script unchanged, has failed on it again.
C6_Witness ==
    /\ pass = 2
    /\ cpc = "panic_generate"
    /\ prev.failed = test_i
    /\ ~prev.edited
    /\ rust[test_i].exists
    /\ wast[test_i].source = "wat_error"

\* The index for the configured scripts: the banner, the _common line, one
\* line per script in configured order and the empty last line, joined by
\* newlines.
ExpectedIndex ==
    <<[t |-> "BANNER"], [t |-> "\n"], [t |-> "mod _common;"], [t |-> "\n"],
      [t |-> "mod", name |-> "br_if"], [t |-> "\n"],
      [t |-> "mod", name |-> "br_table"], [t |-> "\n"], [t |-> ""]>>

\* C7: when a run of main completes, mod.rs holds the computed index; it
\* was written in the run if and only if its content before the run was
\* different, and is as it was when the content was the same.
C7_IndexContent ==
    cpc = "exit" =>
        /\ modrs.content = ExpectedIndex
        /\ (rust_test_modpath \in writes) <=> (snap.modrs.content # ExpectedIndex)
        /\ snap.modrs.content = ExpectedIndex => modrs = snap.modrs

\* A run completed that rewrote the index though it regenerated only the
\* second script.
C7_Witness ==
    /\ cpc = "exit"
    /\ rust_test_modpath \in writes
    /\ ~Written(1)
    /\ Written(2)

\* ------------------------------------------------- claims on visitor calls
Last(s) == s[Len(s)]

RECURSIVE skip_whitespace(_)
\* A line continuation drops the newline and the white space after it.
skip_whitespace(s) ==
    IF s # <<>> /\ Head(s) \in {SP, NL} THEN skip_whitespace(Tail(s)) ELSE s

RECURSIVE read_literal(_)
\* The text a Rust string literal denotes, given what stands between its
\* opening quote and the quote the generator closes it with: \" is a quote,
\* \\ a backslash, a backslash before a newline continues the line, any
\* other character stands for itself.  ok is FALSE when the literal does
\* not read as one literal: a bare quote ends it early, a backslash before
\* the closing quote leaves it open, and a backslash before a space or an
\* ordinary character is no escape (before one of the few letters that do
\* form an escape it would read as some other character: not the text
\* either).
read_literal(s) ==
    LET failed == [ok |-> FALSE, text |-> <<>>]
        cons(c, r) == IF r.ok THEN [ok |-> TRUE, text |-> <<c>> \o r.text] ELSE failed
    IN  IF s = <<>> THEN [ok |-> TRUE, text |-> <<>>]
        ELSE IF Head(s) = QUOTE THEN failed
        ELSE IF Head(s) # BSLASH THEN cons(Head(s), read_literal(Tail(s)))
        ELSE IF Len(s) = 1 THEN failed
        ELSE LET rest == SubSeq(s, 3, Len(s))
             IN  CASE s[2] = QUOTE -> cons(QUOTE, read_literal(rest))
                   [] s[2] = BSLASH -> cons(BSLASH, read_literal(rest))
                   [] s[2] = NL -> read_literal(skip_whitespace(rest))
                   [] OTHER -> failed

RECURSIVE dedent(_)
\* The text without the four spaces that follow each of its newlines.
dedent(s) ==
    IF s = <<>> THEN <<>>
    ELSE IF Head(s) = NL /\ Len(s) >= 5 /\ SubSeq(s, 2, 5) = <<SP, SP, SP, SP>>
    THEN <<NL>> \o dedent(SubSeq(s, 6, Len(s)))
    ELSE <<Head(s)>> \o dedent(Tail(s))

\* C11: for every module text over quote, backslash, newline, space and an
\* ordinary character, the literal that visit_module writes into the
\* factory reads back, under the rules of Rust string literals, as the
\* text itself once the indentation added after newlines is taken off.
C11_EscapingRoundTrip ==
    (pc = "visited" /\ input.tag = "Module") =>
        LET r == read_literal(Last(gen.buffer).module_str)
        IN  r.ok /\ dedent(r.text) = input.wast_string

\* The type name and the literal expression that section 4.1 gives a value.
TypeName == [I32 |-> "i32", I64 |-> "i64", F32 |-> "f32", F64 |-> "f64"]

Literal(v) == [lit |-> v.v, as |-> TypeName[v.ty]]

\* C12: for an assert_return that invokes with arguments a1..an and expects
\* e1..em, the wrapper's signature lists the type names of a1..an in order
\* and then the context parameter; its return type is the type name of e1,
\* or absent when m = 0; the call passes the literals of a1..an in order
\* and then the context; the assertion compares the result with the
\* literal of e1, or with the unit value when m = 0, whatever e2..em are.
C12_WrapperSignature ==
    (pc = "visited" /\ input.tag = "AssertReturn") =>
        LET w == Last(gen.buffer)
            a == input.action.args
            e == input.expected
            n == Len(a)
        IN  /\ w.t = "wrapper"
            /\ Len(w.args_types) = n + 1
            /\ \A i \in 1..n : w.args_types[i] = TypeName[a[i].ty]
            /\ w.args_types[n + 1] = "&VmCtx"
            /\ w.func_return = (IF e = <<>> THEN <<>> ELSE <<TypeName[e[1].ty]>>)
            /\ Len(w.args_values) = n + 1
            /\ \A i \in 1..n : w.args_values[i] = Literal(a[i])
            /\ w.args_values[n + 1] = [lit |-> 0, as |-> "&vm_context"]
            /\ w.expected_result = (IF e = <<>> THEN [lit |-> 0, as |-> "()"] ELSE Literal(e[1]))

\* A wrapper was emitted for two arguments of different kinds and two
\* expected values of different kinds.
C12_Witness ==
    /\ pc = "visited"
    /\ input.tag = "AssertReturn"
    /\ Len(input.action.args) = 2
    /\ input.action.args[1].ty # input.action.args[2].ty
    /\ Len(input.expected) = 2
    /\ input.expected[1].ty # input.expected[2].ty
    /\ Last(gen.buffer).t = "wrapper"

\* --------------------------------------------- claims on the module ledger
\* C13: the calls pending for a module are flushed when the next module is
\* defined, under the index that is current before the increment: between
\* commands every earlier module that received wrappers has its
\* test_module_k in the buffer, and test_module_k stands before
\* create_module_(k+1) and after every wrapper of module k.
C13_FlushBeforeNextModule ==
    /\ pc = "loop" =>
          \A k \in 0..(gen.last_module - 1) :
              WrappersVisited(gen.buffer, k) # <<>> => TestModules(gen.buffer, k) # {}
    /\ \A i \in 1..Len(gen.buffer) :
          gen.buffer[i].t = "test_module" =>
              /\ \A j \in Factories(gen.buffer) :
                    gen.buffer[j].n = gen.buffer[i].module + 1 => i < j
              /\ \A w \in 1..Len(gen.buffer) :
                    (gen.buffer[w].t = "wrapper"
                     /\ ModuleAt(gen.buffer, w) = gen.buffer[i].module) => w < i

\* A module with a wrapper was followed by the definition of the next
\* module, and further commands are still to come.
C13_Witness ==
    /\ pc = "loop"
    /\ \E i \in 1..Len(gen.buffer) :
          /\ gen.buffer[i].t = "test_module"
          /\ gen.buffer[i].module >= 1
          /\ \E j \in Factories(gen.buffer) : gen.buffer[j].n = gen.buffer[i].module + 1
          /\ \E w \in 1..(i - 1) : gen.buffer[w].t = "wrapper"
                                    /\ ModuleAt(gen.buffer, w) = gen.buffer[i].module

\* The step of the while loop that visits a command of one of the kinds.
Visits(tags) == pc = "loop" /\ pc' = "loop" /\ nread' = nread + 1 /\ cmd'.kind.tag \in tags

\* The fragments a step appended to the buffer.
Appended == SubSeq(gen'.buffer, Len(gen.buffer) + 1, Len(gen'.buffer))

Extends == /\ Len(gen'.buffer) >= Len(gen.buffer)
           /\ SubSeq(gen'.buffer, 1, Len(gen.buffer)) = gen.buffer

\* C14: visiting an assert-invalid or an assert-malformed command appends,
\* after the line comment of the command, exactly one test function of
\* that kind and leaves pending_calls (module_calls) and the module index
\* as they were; no aggregating function ever calls such a test.
C14_StandaloneTests ==
    /\ [][Visits({"AssertInvalid", "AssertMalformed"}) =>
            /\ Extends
            /\ Len(Appended) = 2
            /\ Appended[1] = [t |-> "line", line |-> cmd'.line]
            /\ Appended[2].t = (IF cmd'.kind.tag = "AssertInvalid"
                                THEN "assert_invalid" ELSE "assert_malformed")
            /\ Appended[2].name.l = cmd'.line
            /\ gen'.module_calls = gen.module_calls
            /\ gen'.last_module = gen.last_module]_vars
    /\ [](\A i \in 1..Len(gen.buffer) :
            gen.buffer[i].t = "test_module" =>
                \A c \in 1..Len(gen.buffer[i].calls) :
                    gen.buffer[i].calls[c].call.suffix = "_assert_return_invoke")

\* A module received a wrapper, an assert-invalid and an assert-malformed
\* test, and its aggregating function was emitted.
C14_Witness ==
    /\ pc = "done"
    /\ \E i \in 1..Len(gen.buffer), a \in 1..Len(gen.buffer), m \in 1..Len(gen.buffer) :
          /\ gen.buffer[i].t = "test_module"
          /\ gen.buffer[a].t = "assert_invalid"
          /\ gen.buffer[m].t = "assert_malformed"
          /\ ModuleAt(gen.buffer, a) = gen.buffer[i].module
          /\ ModuleAt(gen.buffer, m) = gen.buffer[i].module
          /\ gen.module_calls = NoCalls

\* No call is pending for index k.
NonePending(calls, k) == k \notin DOMAIN calls \/ calls[k] = <<>>

\* C15: a flush of an index with no pending call appends nothing, does not
\* fail and leaves the ledger without an entry for the index.  So a module
\* definition that finds nothing pending appends its line comment and its
\* factory only; the flushes at the end of the script append nothing for a
\* module without pending calls (one flushed at a module boundary, or one
\* that never had a wrapper) and leave no entry for 1..N; and no
\* test_module_k is in the buffer twice.
C15_EmptyFlushIsNoOp ==
    /\ [][(Visits({"Module"}) /\ NonePending(gen.module_calls, gen.last_module)) =>
            /\ Extends
            /\ Len(Appended) = 2
            /\ Appended[2].t = "create_module"
            /\ gen.last_module \notin DOMAIN gen'.module_calls]_vars
    /\ [][(pc = "loop" /\ pc' = "done") =>
            /\ Extends
            /\ \A k \in 1..gen.last_module :
                  /\ k \notin DOMAIN gen'.module_calls
                  /\ NonePending(gen.module_calls, k) =>
                        \A i \in 1..Len(Appended) :
                            ~(Appended[i].t = "test_module" /\ Appended[i].module = k)]_vars
    /\ [](\A k \in 0..gen.last_module : Cardinality(TestModules(gen.buffer, k)) <= 1)

\* consume returned for two modules: the first was flushed when the second
\* was defined, the second never had a wrapper, and the closing flushes
\* added nothing.
C15_Witness ==
    /\ pc = "done"
    /\ gen.last_module = 2
    /\ Cardinality(TestModules(gen.buffer, 1)) = 1
    /\ TestModules(gen.buffer, 2) = {}
    /\ gen.buffer[Len(gen.buffer)].t # "test_module"
    /\ gen.module_calls = NoCalls

\* C16: current_module_index (last_module) is 0 when the generator is
\* built, grows by exactly one in the step that visits a module definition
\* and is changed by no other step; so it always equals the number of
\* module definitions visited, and the factory of the j-th of them is
\* create_module_j.
C16_ModuleIndex ==
    /\ [](pc = "new" => gen.last_module = 0)
    /\ [][gen'.last_module = (IF Visits({"Module"})
                              THEN gen.last_module + 1 ELSE gen.last_module)]_vars
    /\ [](/\ gen.last_module = Cardinality(Factories(gen.buffer))
          /\ \A j \in Factories(gen.buffer) :
                gen.buffer[j].n = ModuleAt(gen.buffer, j) + 1)

\* Two modules were defined, with a wrapper emitted between the two
\* definitions and another after the second.
C16_Witness ==
    /\ gen.last_module = 2
    /\ \E j \in Factories(gen.buffer), w \in 1..Len(gen.buffer), x \in 1..Len(gen.buffer) :
          /\ gen.buffer[j].n = 2
          /\ gen.buffer[w].t = "wrapper" /\ w < j /\ ModuleAt(gen.buffer, w) = 1
          /\ gen.buffer[x].t = "wrapper" /\ j < x

\* ------------------------------------------- claims on the order of a run
\* C17: a run of main takes the scripts in the order of TESTS, one at a
\* time: the scripts before the loop position have each been written or
\* found fresh and their names stand in modules in that order, the outputs
\* of the scripts from the loop position on are untouched, and mod.rs is
\* read and written only once the loop has passed every script.  When the
\* run fails on script k it stops there: the outputs of the scripts after
\* k and mod.rs are as they were when the run began.
C17_ScriptsInOrder ==
    InRun =>
        /\ test_i \in 1..(Len(TESTS) + 1)
        /\ modules = [i \in 1..(test_i - 1) |-> file_stem(TESTS[i])]
        /\ \A i \in Tests :
              /\ i < test_i => (Written(i) \/ ~StaleIn(snap.rust, i))
              /\ i >= test_i => (~Written(i) /\ rust[i] = snap.rust[i])
        /\ cpc \in {"tests", "panic_metadata", "panic_generate"} =>
              (modrs = snap.modrs /\ rust_test_modpath \notin writes)
        /\ cpc \in {"modfile", "exit", "panic_read"} => test_i = Len(TESTS) + 1
        /\ cpc \in {"panic_metadata", "panic_generate"} => test_i <= Len(TESTS)

\* The run failed on the first script while the output of the second was
\* stale and mod.rs did not hold the index of the configured scripts.
C17_Witness ==
    /\ cpc = "panic_generate"
    /\ test_i = 1
    /\ wast[2].exists
    /\ StaleIn(rust, 2)
    /\ ~Fails(ScriptSource(wast[2].source))
    /\ modrs.exists
    /\ modrs.content # ExpectedIndex

\* -------------------------------------- claims implied by the flush protocol
\* C18: every test_module_k in the buffer is preceded by the factory
\* create_module_k that it calls, whatever the command stream, streams
\* with an assert-return invocation before the first module definition
\* included.
C18_FactoryBeforeAggregate ==
    \A i \in 1..Len(gen.buffer) :
        gen.buffer[i].t = "test_module" =>
            \E j \in Factories(gen.buffer) :
                j < i /\ gen.buffer[j].n = gen.buffer[i].create

\* C19: between any two commands pending_calls (module_calls) has at most
\* one key, and that key is the current module index: no entry of an
\* earlier module outlives the definition of the next.
C19_OnlyCurrentPending ==
    pc = "loop" => DOMAIN gen.module_calls \subseteq {gen.last_module}

\* The second module has calls pending after the first, which had calls
\* of its own, was flushed at the boundary.
C19_Witness ==
    /\ pc = "loop"
    /\ gen.last_module = 2
    /\ DOMAIN gen.module_calls = {2}
    /\ TestModules(gen.buffer, 1) # {}
====
